---- MODULE Spec2Model ----
(***************************************************************************)
(* Water quality prediction scripts (backend/python-scripts).              *)
(*                                                                         *)
(* Every request is one run of one script (one OS process).  The rule      *)
(* based scripts (predict_sensor_only.py, predict_hybrid.py,               *)
(* predict_image_only.py) and the model scripts (predict.py,               *)
(* predict_s3.py) print JSON objects on stdout; predict_s3.py shares the   *)
(* directory model_cache with every other run of predict_s3.py.            *)
(*                                                                         *)
(* Numbers: a sensor value v is held as the integer 1000 * v (pH 6.5 is    *)
(* 6500, TDS 500 is 500000), so every threshold of the code is exact.      *)
(***************************************************************************)
EXTENDS Integers, Sequences, FiniteSets, TLC

VARIABLES
  pc,          \* pc[p]: where run p is in its script
  script,      \* script[p]: the script run p executes
  out,         \* out[p]: the JSON objects run p printed on stdout, in order
  rc,          \* rc[p]: exit status of run p (0, or 1 after sys.exit(1))
  risk_score,  \* risk_score[p]: the scorer's local risk_score (-1: not run)
  visual_risk, \* visual_risk[p]: analyze_image's visual risk (hybrid)
  files,       \* files[path]: the file at a path of model_cache
  idx,         \* idx[p]: position of run p in the loop over model_files
  paths,       \* paths[p]: what download_model_from_s3 returned to run p
  fetched,     \* fetched[p]: artifacts run p asked object storage for
  got,         \* got[p]: artifacts whose download by run p completed
  warm,        \* warm[p]: run p found all artifacts cached when it began
  dlfail,      \* dlfail[p]: how a download of run p failed ("none": none did)
  preloaded,   \* artifacts in model_cache before the first run
  table,       \* table[p]: the sensor CSV run p was given, where it is
               \* modelled with its columns and rows (NoTable: it is not)
  fed          \* fed[p]: the sensor sequence run p built for the model

s3vars == <<files, idx, paths, fetched, got, warm, dlfail, preloaded>>

tvars == <<table, fed>>

vars == <<pc, script, out, rc, risk_score, visual_risk, s3vars, tvars>>

\* Number of concurrent runs.
NProcs == 2

Procs == 1..NProcs

Params == {"pH", "Temperature", "TDS", "Turbidity", "DO"}

RuleScripts == {"sensor_only", "hybrid", "image_only"}

----------------------------------------------------------------------------
(* Inputs.                                                                 *)

\* Values a CSV's last row holds, per parameter (x1000): both sides and the
\* edge of every band of the scorers, and a Turbidity of three decimals
\* that round(v, 2) moves onto an edge.
ParamValues(k) ==
  CASE k = "pH"          -> {5500, 6000, 6500, 7000, 8500, 9000, 9500}
    [] k = "Temperature" -> {5000, 10000, 15000, 25000, 30000, 35000, 40000}
    [] k = "TDS"         -> {300000, 499990, 500000, 1000000, 1200000}
    [] k = "Turbidity"   -> {2000, 4990, 4996, 5000, 10000, 12000}
    [] k = "DO"          -> {2000, 3000, 5000, 5010, 6000}

Readings ==
  [pH : ParamValues("pH"), Temperature : ParamValues("Temperature"),
   TDS : ParamValues("TDS"), Turbidity : ParamValues("Turbidity"),
   DO : ParamValues("DO")]

\* A sensor CSV as pd.read_csv sees it: not parseable, parsed with no data
\* row, or parsed with a last row (columns already matched to parameters).
CsvInputs ==
  {[kind |-> "unreadable"], [kind |-> "empty"]}
    \cup {[kind |-> "rows", last |-> r] : r \in Readings}

\* Image measurements: green_ratio (x1000), laplacian_var and mean gray
\* brightness (integers here).
GreenValues == {0, 150, 200, 300, 310, 700, 1000}

LaplacianValues == {0, 49, 50, 99, 100, 400}

BrightnessValues == {0, 100, 110, 150, 160, 255}

\* An image as cv2.imread sees it: None (undecodable) or the measured pixels.
ImageInputs ==
  {[kind |-> "undecodable"]}
    \cup [kind : {"ok"}, green : GreenValues, lap : LaplacianValues,
          bright : BrightnessValues]

\* Values of the CSVs the model scripts (predict.py, predict_s3.py) are run
\* on: in range, on an edge, out of range.
ModelParamValues(k) ==
  CASE k = "pH"          -> {6000, 7000, 8500}
    [] k = "Temperature" -> {15000, 25000, 40000}
    [] k = "TDS"         -> {300000, 500000}
    [] k = "Turbidity"   -> {2000, 5000}
    [] k = "DO"          -> {5000, 6000}

ModelCsvInputs ==
  {c \in CsvInputs :
     c.kind = "rows" => \A k \in Params : c.last[k] \in ModelParamValues(k)}

\* What model.predict gives: it raises, or returns two probability vectors,
\* held as their argmax (q in 0..1, r in 0..2) and their maximum in percent.
ModelOutputs ==
  {[raises |-> TRUE]}
    \cup [raises : {FALSE}, q : 0..1, r : 0..2, qconf : {51, 99},
          rconf : {34}]

\* The saved model files as the loader finds them.
ArtifactStates == {"ok", "missing", "corrupt"}

\* The images the model scripts are run on: they only decode and resize.
ModelImageInputs ==
  {img \in ImageInputs :
     img.kind = "ok" => img.green = 0 /\ img.lap = 400 /\ img.bright = 100}

\* The images predict_hybrid.py is run on: analyze_image does not read the
\* brightness, so one brightness stands for all.
HybridImageInputs ==
  {img \in ImageInputs : img.kind = "ok" => img.bright = 100}

----------------------------------------------------------------------------
(* Python: exceptions, round.                                              *)

\* Exception classes raised in the scripts; SystemExit derives from
\* BaseException, the others from Exception.
ExcClasses == {"Exception", "FileNotFoundError", "SystemExit"}

\* Variant: a bare "except:", which also catches SystemExit.
ExceptException_Bare(exc) ==
  exc \in {"Exception", "FileNotFoundError", "SystemExit"}

\* `except Exception as e`: the clause every script's entry point ends with.
ExceptException(exc) == exc \in {"Exception", "FileNotFoundError"}

\* round(v, 2) on a value held x1000: to the nearest 10, ties to even.
Round2(v) ==
  LET q == v \div 10
      r == v % 10
  IN  IF r < 5 THEN q * 10
      ELSE IF r > 5 THEN (q + 1) * 10
      ELSE IF q % 2 = 0 THEN q * 10 ELSE (q + 1) * 10

ErrorObj(msg) == [error |-> msg]

\* What a function body did: the objects it printed and the exception it
\* ended with ("none": it returned).
Ran(printed, exc, score, visual) ==
  [printed |-> printed, exc |-> exc, score |-> score, visual |-> visual]

\* try: <body> except Exception as e: print(error); sys.exit(1)
TryExceptExit(body, msg) ==
  IF body.exc # "none" /\ ExceptException(body.exc)
  THEN [body EXCEPT !.printed = Append(body.printed, ErrorObj(msg)),
                    !.exc = "SystemExit"]
  ELSE body

----------------------------------------------------------------------------
(* predict_sensor_only.py                                                  *)

\* Variant: the moderate pH band closed at 6.5 and 8.5.
SensorIncr_ClosedpH(k, data) ==
  CASE k = "pH" ->
         IF data.pH < 6000 \/ data.pH > 9000 THEN 3
         ELSE IF data.pH <= 6500 \/ data.pH >= 8500 THEN 1 ELSE 0
    [] k = "Temperature" ->
         IF data.Temperature < 10000 \/ data.Temperature > 35000 THEN 3
         ELSE IF data.Temperature < 15000 \/ data.Temperature > 30000 THEN 1
         ELSE 0
    [] k = "TDS" ->
         IF data.TDS > 1000000 THEN 3
         ELSE IF data.TDS > 500000 THEN 1 ELSE 0
    [] k = "Turbidity" ->
         IF data.Turbidity > 10000 THEN 3
         ELSE IF data.Turbidity > 5000 THEN 1 ELSE 0
    [] k = "DO" ->
         IF data.DO < 3000 THEN 3
         ELSE IF data.DO < 5000 THEN 1 ELSE 0

\* The amount assess_risk_from_sensor adds to risk_score for parameter k.
SensorIncr(k, data) ==
  CASE k = "pH" ->
         IF data.pH < 6000 \/ data.pH > 9000 THEN 3
         ELSE IF data.pH < 6500 \/ data.pH > 8500 THEN 1 ELSE 0
    [] k = "Temperature" ->
         IF data.Temperature < 10000 \/ data.Temperature > 35000 THEN 3
         ELSE IF data.Temperature < 15000 \/ data.Temperature > 30000 THEN 1
         ELSE 0
    [] k = "TDS" ->
         IF data.TDS > 1000000 THEN 3
         ELSE IF data.TDS > 500000 THEN 1 ELSE 0
    [] k = "Turbidity" ->
         IF data.Turbidity > 10000 THEN 3
         ELSE IF data.Turbidity > 5000 THEN 1 ELSE 0
    [] k = "DO" ->
         IF data.DO < 3000 THEN 3
         ELSE IF data.DO < 5000 THEN 1 ELSE 0

SensorScore(data) ==
  SensorIncr("pH", data) + SensorIncr("Temperature", data)
    + SensorIncr("TDS", data) + SensorIncr("Turbidity", data)
    + SensorIncr("DO", data)

\* Variant: a confidence that grows with the score.
SensorLabel_Growing(s) ==
  IF s >= 6 THEN [quality |-> "Unsafe", risk |-> "High", confidence |-> 92 + s]
  ELSE IF s >= 3
       THEN [quality |-> "Unsafe", risk |-> "Medium", confidence |-> 88]
       ELSE [quality |-> "Safe", risk |-> "Low", confidence |-> 95]

\* The tail of assess_risk_from_sensor: risk_score to quality, risk,
\* confidence.
SensorLabel(s) ==
  IF s >= 6 THEN [quality |-> "Unsafe", risk |-> "High", confidence |-> 92]
  ELSE IF s >= 3
       THEN [quality |-> "Unsafe", risk |-> "Medium", confidence |-> 88]
       ELSE [quality |-> "Safe", risk |-> "Low", confidence |-> 95]

assess_risk_from_sensor(data) == SensorLabel(SensorScore(data))

\* The status predict_from_sensor reports for parameter k.
SensorStatus(k, data) ==
  CASE k = "pH" ->
         IF 6500 <= data.pH /\ data.pH <= 8500 THEN "Normal" ELSE "Abnormal"
    [] k = "Temperature" ->
         IF 15000 <= data.Temperature /\ data.Temperature <= 30000
         THEN "Normal" ELSE "Abnormal"
    [] k = "TDS" -> IF data.TDS < 500000 THEN "Normal" ELSE "Abnormal"
    [] k = "DO" -> IF data.DO > 5000 THEN "Normal" ELSE "Abnormal"
    [] k = "Turbidity" ->
         IF data.Turbidity < 5000 THEN "Normal" ELSE "Abnormal"

SensorResult(data) ==
  LET a == assess_risk_from_sensor(data)
  IN  [water_quality |-> a.quality,
       risk_level |-> a.risk,
       confidence |-> [quality |-> a.confidence, risk |-> a.confidence - 3],
       sensor_readings |-> data,
       parameters |->
         [k \in Params |->
            [value |-> Round2(data[k]), status |-> SensorStatus(k, data)]],
       method |-> "sensor_only"]

\* predict_from_sensor(csv_path), the whole function.
predict_from_sensor(csv) ==
  TryExceptExit(
    IF csv.kind = "unreadable" THEN Ran(<<>>, "Exception", -1, 0)
    ELSE IF csv.kind = "empty"
         THEN Ran(<<ErrorObj("No data in CSV file")>>, "SystemExit", -1, 0)
         ELSE Ran(<<SensorResult(csv.last)>>, "none",
                  SensorScore(csv.last), 0),
    "Prediction error")

----------------------------------------------------------------------------
(* predict_hybrid.py                                                       *)

\* read_sensor_data(csv_path): the latest reading, or None.
read_sensor_data(csv) ==
  IF csv.kind = "rows" THEN [none |-> FALSE, data |-> csv.last]
  ELSE [none |-> TRUE]

\* analyze_image(image_path): the visual risk, 0 for an image cv2 cannot
\* decode.
analyze_image(img) ==
  IF img.kind = "undecodable" THEN 0
  ELSE (IF img.green > 300 THEN 2 ELSE IF img.green > 150 THEN 1 ELSE 0)
         + (IF img.lap < 50 THEN 2 ELSE IF img.lap < 100 THEN 1 ELSE 0)

\* Variant: a scorer without the severe tier for dissolved oxygen.
HybridIncr_FlatDO(k, sensor_data) ==
  CASE k = "pH" ->
         IF sensor_data.pH < 6000 \/ sensor_data.pH > 9000 THEN 3
         ELSE IF sensor_data.pH < 6500 \/ sensor_data.pH > 8500 THEN 1 ELSE 0
    [] k = "Temperature" ->
         IF sensor_data.Temperature < 10000 \/ sensor_data.Temperature > 35000
         THEN 3
         ELSE IF sensor_data.Temperature < 15000
                   \/ sensor_data.Temperature > 30000
              THEN 1 ELSE 0
    [] k = "TDS" ->
         IF sensor_data.TDS > 1000000 THEN 3
         ELSE IF sensor_data.TDS > 500000 THEN 1 ELSE 0
    [] k = "Turbidity" ->
         IF sensor_data.Turbidity > 10000 THEN 3
         ELSE IF sensor_data.Turbidity > 5000 THEN 1 ELSE 0
    [] k = "DO" -> IF sensor_data.DO < 5000 THEN 1 ELSE 0

\* The amount assess_risk adds to risk_score for parameter k.
HybridIncr(k, sensor_data) ==
  CASE k = "pH" ->
         IF sensor_data.pH < 6000 \/ sensor_data.pH > 9000 THEN 3
         ELSE IF sensor_data.pH < 6500 \/ sensor_data.pH > 8500 THEN 1 ELSE 0
    [] k = "Temperature" ->
         IF sensor_data.Temperature < 10000 \/ sensor_data.Temperature > 35000
         THEN 3
         ELSE IF sensor_data.Temperature < 15000
                   \/ sensor_data.Temperature > 30000
              THEN 1 ELSE 0
    [] k = "TDS" ->
         IF sensor_data.TDS > 1000000 THEN 3
         ELSE IF sensor_data.TDS > 500000 THEN 1 ELSE 0
    [] k = "Turbidity" ->
         IF sensor_data.Turbidity > 10000 THEN 3
         ELSE IF sensor_data.Turbidity > 5000 THEN 1 ELSE 0
    [] k = "DO" ->
         IF sensor_data.DO < 3000 THEN 3
         ELSE IF sensor_data.DO < 5000 THEN 1 ELSE 0

\* Variant: a score that leaves the visual increment out.
HybridScore_SensorOnly(sensor_data, visual) ==
  HybridIncr("pH", sensor_data) + HybridIncr("Temperature", sensor_data)
    + HybridIncr("TDS", sensor_data) + HybridIncr("Turbidity", sensor_data)
    + HybridIncr("DO", sensor_data)

HybridScore(sensor_data, visual) ==
  HybridIncr("pH", sensor_data) + HybridIncr("Temperature", sensor_data)
    + HybridIncr("TDS", sensor_data) + HybridIncr("Turbidity", sensor_data)
    + HybridIncr("DO", sensor_data) + visual

\* Variant: the High band starting at a score of 5.
HybridLabel_HighAt5(s) ==
  IF s >= 5 THEN [quality |-> "Unsafe", risk |-> "High", confidence |-> 95]
  ELSE IF s >= 3
       THEN [quality |-> "Unsafe", risk |-> "Medium", confidence |-> 92]
       ELSE [quality |-> "Safe", risk |-> "Low", confidence |-> 97]

\* The tail of assess_risk.
HybridLabel(s) ==
  IF s >= 6 THEN [quality |-> "Unsafe", risk |-> "High", confidence |-> 95]
  ELSE IF s >= 3
       THEN [quality |-> "Unsafe", risk |-> "Medium", confidence |-> 92]
       ELSE [quality |-> "Safe", risk |-> "Low", confidence |-> 97]

assess_risk(sensor_data, visual) == HybridLabel(HybridScore(sensor_data, visual))

\* The status predict reports for parameter k.
HybridStatus(k, sensor_data) ==
  CASE k = "pH" ->
         IF 6500 <= sensor_data.pH /\ sensor_data.pH <= 8500
         THEN "Normal" ELSE "Abnormal"
    [] k = "Temperature" ->
         IF 15000 <= sensor_data.Temperature
              /\ sensor_data.Temperature <= 30000
         THEN "Normal" ELSE "Abnormal"
    [] k = "TDS" -> IF sensor_data.TDS < 500000 THEN "Normal" ELSE "Abnormal"
    [] k = "DO" -> IF sensor_data.DO > 5000 THEN "Normal" ELSE "Abnormal"
    [] k = "Turbidity" ->
         IF sensor_data.Turbidity < 5000 THEN "Normal" ELSE "Abnormal"

HybridResult(sensor_data, visual) ==
  LET a == assess_risk(sensor_data, visual)
  IN  [water_quality |-> a.quality,
       risk_level |-> a.risk,
       confidence |-> [quality |-> a.confidence, risk |-> a.confidence - 2],
       sensor_readings |-> sensor_data,
       parameters |->
         [k \in Params |->
            [value |-> Round2(sensor_data[k]),
             status |-> HybridStatus(k, sensor_data)]],
       method |-> "hybrid_sensor_image"]

\* predict(image_path, csv_path), the whole function.
predict(img, csv) ==
  TryExceptExit(
    IF read_sensor_data(csv).none
    THEN Ran(<<ErrorObj("Failed to read sensor data from CSV")>>,
             "SystemExit", -1, 0)
    ELSE LET sensor_data == read_sensor_data(csv).data
             visual == analyze_image(img)
         IN  Ran(<<HybridResult(sensor_data, visual)>>, "none",
                 HybridScore(sensor_data, visual), visual),
    "Prediction error")

----------------------------------------------------------------------------
(* predict_image_only.py                                                   *)

Max(a, b) == IF a >= b THEN a ELSE b

Min(a, b) == IF a <= b THEN a ELSE b

\* Variant: a pH estimate that rises by 3 over the green ratio.
analyze_image_features_SteeppH(img) ==
  LET turbidity_estimate == Max(0, Min(10000, (100 - img.lap) * 100))
  IN  [pH |-> 7000 + img.green * 3,
       Temperature |-> 20000 + img.bright * 100,
       TDS |-> 300000 + turbidity_estimate * 30,
       Turbidity |-> turbidity_estimate,
       DO |-> Max(3000, 8000 - img.green * 5)]

\* analyze_image_features(image_path) on a decodable image: the parameters
\* estimated from the pixels.
analyze_image_features(img) ==
  LET turbidity_estimate == Max(0, Min(10000, (100 - img.lap) * 100))
  IN  [pH |-> 7000 + img.green * 2,
       Temperature |-> 20000 + img.bright * 100,
       TDS |-> 300000 + turbidity_estimate * 30,
       Turbidity |-> turbidity_estimate,
       DO |-> Max(3000, 8000 - img.green * 5)]

\* The amount assess_risk_from_params adds to risk_score for parameter k.
ImageIncr(k, params) ==
  CASE k = "pH" ->
         IF params.pH < 6000 \/ params.pH > 9000 THEN 3
         ELSE IF params.pH < 6500 \/ params.pH > 8500 THEN 1 ELSE 0
    [] k = "Temperature" ->
         IF params.Temperature < 10000 \/ params.Temperature > 35000 THEN 3
         ELSE IF params.Temperature < 15000 \/ params.Temperature > 30000
              THEN 1 ELSE 0
    [] k = "TDS" ->
         IF params.TDS > 1000000 THEN 3
         ELSE IF params.TDS > 500000 THEN 1 ELSE 0
    [] k = "Turbidity" ->
         IF params.Turbidity > 10000 THEN 3
         ELSE IF params.Turbidity > 5000 THEN 1 ELSE 0
    [] k = "DO" ->
         IF params.DO < 3000 THEN 3
         ELSE IF params.DO < 5000 THEN 1 ELSE 0

ImageScore(params) ==
  ImageIncr("pH", params) + ImageIncr("Temperature", params)
    + ImageIncr("TDS", params) + ImageIncr("Turbidity", params)
    + ImageIncr("DO", params)

\* The tail of assess_risk_from_params.
ImageLabel(s) ==
  IF s >= 6 THEN [quality |-> "Unsafe", risk |-> "High"]
  ELSE IF s >= 3 THEN [quality |-> "Unsafe", risk |-> "Medium"]
       ELSE [quality |-> "Safe", risk |-> "Low"]

\* The status predict_from_image reports for parameter k.
ImageStatus(k, params) ==
  CASE k = "pH" ->
         IF 6500 <= params.pH /\ params.pH <= 8500
         THEN "Normal" ELSE "Abnormal"
    [] k = "Temperature" ->
         IF 15000 <= params.Temperature /\ params.Temperature <= 30000
         THEN "Normal" ELSE "Abnormal"
    [] k = "TDS" -> IF params.TDS < 500000 THEN "Normal" ELSE "Abnormal"
    [] k = "DO" -> IF params.DO > 5000 THEN "Normal" ELSE "Abnormal"
    [] k = "Turbidity" ->
         IF params.Turbidity < 5000 THEN "Normal" ELSE "Abnormal"

ImageResult(params) ==
  LET a == ImageLabel(ImageScore(params))
      confidence == Min(95, 70 + ImageScore(params) * 3)
  IN  [water_quality |-> a.quality,
       risk_level |-> a.risk,
       confidence |-> [quality |-> confidence, risk |-> confidence - 5],
       sensor_readings |-> params,
       parameters |->
         [k \in Params |->
            [value |-> Round2(params[k]), status |-> ImageStatus(k, params)]],
       method |-> "image_only"]

\* predict_from_image(image_path), the whole function.
predict_from_image(img) ==
  TryExceptExit(
    IF img.kind = "undecodable"
    THEN Ran(<<ErrorObj("Failed to process image")>>, "SystemExit", -1, 0)
    ELSE LET params == analyze_image_features(img)
         IN  Ran(<<ImageResult(params)>>, "none", ImageScore(params), 0),
    "Prediction error")

----------------------------------------------------------------------------
(* predict.py                                                              *)

\* b after a: b runs only if a returned; the output is a's, then b's.
Then(a, b) ==
  IF a.exc # "none" THEN a
  ELSE [b EXCEPT !.printed = a.printed \o b.printed]

\* load_model_and_preprocessors(): its two except clauses print the error
\* and call sys.exit(1).
load_model_and_preprocessors(art) ==
  LET raised == CASE art = "missing" -> "FileNotFoundError"
                  [] art = "corrupt" -> "Exception"
                  [] art = "ok" -> "none"
  IN  IF raised = "FileNotFoundError"
      THEN Ran(<<ErrorObj("Model files not found")>>, "SystemExit", -1, 0)
      ELSE IF raised # "none" /\ ExceptException(raised)
           THEN Ran(<<ErrorObj("Model loading error")>>, "SystemExit", -1, 0)
           ELSE Ran(<<>>, raised, -1, 0)

\* preprocess_image(image_path) of predict.py.
Local_preprocess_image(img) ==
  TryExceptExit(
    Ran(<<>>, IF img.kind = "undecodable" THEN "Exception" ELSE "none", -1, 0),
    "Image preprocessing error")

\* latest_reading of preprocess_sensor_data in predict.py, for a table of at
\* most SEQUENCE_LENGTH rows holding the five feature columns: the last row,
\* or zeros for a table without rows (the padding).
Local_latest_reading(csv) ==
  IF csv.kind = "rows" THEN csv.last ELSE [k \in Params |-> 0]

\* preprocess_sensor_data(csv_path, scaler, feature_columns) of predict.py.
Local_preprocess_sensor_data(csv) ==
  TryExceptExit(
    Ran(<<>>, IF csv.kind = "unreadable" THEN "Exception" ELSE "none", -1, 0),
    "Sensor data preprocessing error")

\* quality_labels and risk_labels of make_prediction (0-based class index).
Local_quality_label(c) == <<"Unsafe", "Safe">>[c + 1]

Local_risk_label(c) == <<"Low", "Medium", "High">>[c + 1]

\* The status make_prediction of predict.py reports for parameter k.
LocalStatus(k, sensor_readings) ==
  CASE k = "pH" ->
         IF 6500 <= sensor_readings.pH /\ sensor_readings.pH <= 8500
         THEN "Normal" ELSE "Abnormal"
    [] k = "Temperature" ->
         IF 15000 <= sensor_readings.Temperature
              /\ sensor_readings.Temperature <= 30000
         THEN "Normal" ELSE "Abnormal"
    [] k = "TDS" ->
         IF sensor_readings.TDS < 500000 THEN "Normal" ELSE "Abnormal"
    [] k = "DO" ->
         IF sensor_readings.DO > 5000 THEN "Normal" ELSE "Abnormal"
    [] k = "Turbidity" ->
         IF sensor_readings.Turbidity < 5000 THEN "Normal" ELSE "Abnormal"

\* The result of predict.py: it has no "method" key.
LocalResult(sensor_readings, mo) ==
  [water_quality |-> Local_quality_label(mo.q),
   risk_level |-> Local_risk_label(mo.r),
   confidence |-> [quality |-> mo.qconf, risk |-> mo.rconf],
   sensor_readings |-> sensor_readings,
   parameters |->
     [k \in Params |->
        [value |-> sensor_readings[k],
         status |-> LocalStatus(k, sensor_readings)]]]

\* make_prediction(image_path, csv_path) of predict.py, the whole function.
Local_make_prediction(art, img, csv, mo) ==
  TryExceptExit(
    Then(load_model_and_preprocessors(art),
      Then(Local_preprocess_image(img),
        Then(Local_preprocess_sensor_data(csv),
          IF mo.raises THEN Ran(<<>>, "Exception", -1, 0)
          ELSE Ran(<<LocalResult(Local_latest_reading(csv), mo)>>, "none",
                   -1, 0)))),
    "Prediction error")

----------------------------------------------------------------------------
(* predict_s3.py: the functions after the model is loaded.                 *)

\* classes_ of the LabelEncoder saved as label_encoder.pkl: the encoder
\* fitted on the WaterQuality column, its classes sorted.
LabelEncoderClasses == <<"Safe", "Unsafe">>

\* dict.get(k, default)
Get(d, k, default) == IF k \in DOMAIN d THEN d[k] ELSE default

\* The status make_prediction of predict_s3.py reports for parameter k.
S3Status(k, sensor_readings) ==
  CASE k = "pH" ->
         IF 6500 <= Get(sensor_readings, "pH", 7000)
              /\ Get(sensor_readings, "pH", 7000) <= 8500
         THEN "Normal" ELSE "Abnormal"
    [] k = "Temperature" ->
         IF 15000 <= Get(sensor_readings, "Temperature", 25000)
              /\ Get(sensor_readings, "Temperature", 25000) <= 30000
         THEN "Normal" ELSE "Abnormal"
    [] k = "TDS" ->
         IF Get(sensor_readings, "TDS", 0) < 500000
         THEN "Normal" ELSE "Abnormal"
    [] k = "DO" ->
         IF Get(sensor_readings, "DO", 0) > 5000
         THEN "Normal" ELSE "Abnormal"
    [] k = "Turbidity" ->
         IF Get(sensor_readings, "Turbidity", 0) < 5000
         THEN "Normal" ELSE "Abnormal"

S3Result(sensor_readings, mo) ==
  [id |-> "now",
   timestamp |-> "now",
   water_quality |-> LabelEncoderClasses[mo.q + 1],
   risk_level |-> LabelEncoderClasses[mo.r + 1],
   confidence |-> [quality |-> mo.qconf, risk |-> mo.rconf],
   sensor_readings |-> sensor_readings,
   parameters |->
     [k \in Params |->
        [value |-> Round2(Get(sensor_readings, k, 0)),
         status |-> S3Status(k, sensor_readings)]],
   method |-> "hybrid_s3_model"]

\* Variant: a failed upload reported in the result.
WithS3Key_Reported(result, up) ==
  IF up = "ok" THEN result @@ [s3_key |-> "predictions/now"]
  ELSE result @@ [s3_key |-> "none"]

\* upload_prediction_to_s3(result): the key, or None after any failure
\* (up = "fail"); then make_prediction adds the key to the result.
WithS3Key(result, up) ==
  IF up = "ok" THEN result @@ [s3_key |-> "predictions/now"] ELSE result

\* make_prediction of predict_s3.py from preprocess_image to the print:
\* no helper has a handler of its own.
S3_predict_and_print(img, csv, mo, up) ==
  IF img.kind = "undecodable" THEN Ran(<<>>, "Exception", -1, 0)
  ELSE IF csv.kind # "rows" THEN Ran(<<>>, "Exception", -1, 0)
  ELSE IF mo.raises THEN Ran(<<>>, "Exception", -1, 0)
  ELSE IF mo.r + 1 > Len(LabelEncoderClasses)
       THEN Ran(<<>>, "Exception", -1, 0)
       ELSE Ran(<<WithS3Key(S3Result(csv.last, mo), up)>>, "none", -1, 0)

----------------------------------------------------------------------------
(* predict_s3.py: the model cache.                                         *)

\* local_file of model_files, in the order the loop visits them.
Order == <<"model.h5", "scaler.pkl", "label_encoder.pkl",
           "feature_columns.json">>

Artifacts == {Order[i] : i \in 1..Len(Order)}

\* CACHE_DIR / local_file.
FinalPath(a) == <<a, 0>>

\* Variant: a transfer that writes its bytes straight to the final path.
DownloadTarget_InPlace(p, a) == <<a, 0>>

\* The file s3_client.download_file(bucket, key, str(local_path)) writes the
\* body to: boto3 (s3transfer) streams into a sibling of local_path with a
\* random extension, renames it to local_path when the body is complete and
\* removes it when the transfer fails.
DownloadTarget(p, a) == <<a, p>>

CachePaths == {<<a, n>> : a \in Artifacts, n \in 0..NProcs}

\* Variant: a download loop without the exists() test.
NeedsDownload_Always(a) == TRUE

\* `if not local_path.exists()`
NeedsDownload(a) == files[FinalPath(a)] = "absent"

\* The dict download_model_from_s3 returns.
ReturnedPaths ==
  [model |-> FinalPath("model.h5"), scaler |-> FinalPath("scaler.pkl"),
   label_encoder |-> FinalPath("label_encoder.pkl"),
   features |-> FinalPath("feature_columns.json")]

NoPaths ==
  [model |-> <<"", 0>>, scaler |-> <<"", 0>>, label_encoder |-> <<"", 0>>,
   features |-> <<"", 0>>]

----------------------------------------------------------------------------
(* Tables: the sensor CSV with its columns and rows.                       *)

\* SEQUENCE_LENGTH of predict.py and predict_s3.py.
SEQUENCE_LENGTH == 10

\* The largest number of data rows of a table.
MaxRows == 12

\* The default column list of preprocess_sensor_data in predict_s3.py.
DefaultColumns == <<"pH", "Temperature", "TDS", "Turbidity", "DO">>

\* possible_features of extract_features, the order of the training matrix.
possible_features == <<"pH", "Temperature", "TDS", "DO", "Turbidity">>

\* The elements of seq that are in S, in the order of seq.
Pick(seq, S) ==
  LET Test(c) == c \in S
  IN  SelectSeq(seq, Test)

\* The header of a table holding the parameter columns S; a table with none
\* of them has another column.
SubsetColumns(S) == IF S = {} THEN <<"site">> ELSE Pick(DefaultColumns, S)

\* Headers: every subset of the five parameter columns, the training order,
\* lower-case names, and two columns that both contain "ph", in both orders.
ColumnLists ==
  {SubsetColumns(S) : S \in SUBSET Params}
    \cup {possible_features,
          <<"ph", "temp", "tds", "turbidity", "do">>,
          <<"pH", "phosphate", "Temperature", "TDS", "Turbidity", "DO">>,
          <<"phosphate", "pH", "Temperature", "TDS", "Turbidity", "DO">>}

\* How the rows of a table run: all in range, or a severe reading in every
\* row but the last, or in the last row only.
TableKinds == {"steady", "bad_first", "bad_last"}

Unreadable == [cols |-> <<>>, n |-> 0, kind |-> "unreadable"]

NoTable == [cols |-> <<>>, n |-> 0, kind |-> "none"]

\* A CSV file: one pd.read_csv cannot parse, or a header and n data rows.
Tables ==
  {Unreadable} \cup [cols : ColumnLists, n : 0..MaxRows, kind : TableKinds]

\* The last row of a "steady" table (x1000).
ScenarioA ==
  [pH |-> 7100, Temperature |-> 24000, TDS |-> 280000, Turbidity |-> 1500,
   DO |-> 6200]

SevereRow ==
  [pH |-> 5500, Temperature |-> 40000, TDS |-> 1200000, Turbidity |-> 12000,
   DO |-> 2000]

\* The parameter a column of these tables was measured as.
Measures(name) ==
  CASE name \in {"pH", "ph"} -> "pH"
    [] name \in {"Temperature", "temp"} -> "Temperature"
    [] name \in {"TDS", "tds"} -> "TDS"
    [] name \in {"Turbidity", "turbidity"} -> "Turbidity"
    [] name \in {"DO", "do"} -> "DO"
    [] OTHER -> "none"

\* df[name].iloc[i - 1] (x1000), rows counted from 1: every row differs from
\* every other row in every column.
Cell(tbl, i, name) ==
  LET back == tbl.n - i
      base == IF \/ tbl.kind = "bad_first" /\ back > 0
                 \/ tbl.kind = "bad_last" /\ back = 0
              THEN SevereRow ELSE ScenarioA
  IN  IF name = "phosphate" THEN 2000 + back * 10
      ELSE IF name = "site" THEN 1000
      ELSE base[Measures(name)] + back * 10

\* Variant: the first row of the table.
iloc_last_First(tbl) ==
  [j \in 1..Len(tbl.cols) |-> <<tbl.cols[j], Cell(tbl, 1, tbl.cols[j])>>]

\* df.iloc[-1].to_dict(), as its items in column order.
iloc_last(tbl) ==
  [j \in 1..Len(tbl.cols) |-> <<tbl.cols[j], Cell(tbl, tbl.n, tbl.cols[j])>>]

\* `sub in key.lower().strip()` for the column names of the headers.
HasSubstring(key, sub) ==
  <<key, sub>> \in
    {<<"pH", "ph">>, <<"ph", "ph">>, <<"phosphate", "ph">>,
     <<"Temperature", "temp">>, <<"temp", "temp">>,
     <<"TDS", "tds">>, <<"tds", "tds">>,
     <<"Turbidity", "turbidity">>, <<"turbidity", "turbidity">>,
     <<"DO", "do">>, <<"do", "do">>}

\* The if / elif chain that matches a column to a parameter: the same chain
\* in predict_sensor_only.py, predict_hybrid.py and predict_s3.py.
MatchColumn(key) ==
  IF HasSubstring(key, "ph") THEN "pH"
  ELSE IF HasSubstring(key, "temp") THEN "Temperature"
  ELSE IF HasSubstring(key, "tds") THEN "TDS"
  ELSE IF HasSubstring(key, "turbidity") THEN "Turbidity"
  ELSE IF HasSubstring(key, "do") \/ HasSubstring(key, "oxygen") THEN "DO"
  ELSE "none"

\* The loop over the columns: data[parameter] = value for every matching
\* column in column order, a later assignment replacing an earlier one.
RECURSIVE StandardizeLoop(_, _)
StandardizeLoop(items, data) ==
  IF items = <<>> THEN data
  ELSE LET k == MatchColumn(Head(items)[1])
       IN  StandardizeLoop(Tail(items),
             IF k = "none" THEN data ELSE (k :> Head(items)[2]) @@ data)

\* The defaults of predict_sensor_only.py and predict_hybrid.py (x1000).
FillDefault ==
  [pH |-> 7000, Temperature |-> 25000, TDS |-> 300000, Turbidity |-> 2000,
   DO |-> 6000]

\* "Fill missing values with defaults".
FillMissing(data) ==
  [k \in Params |-> IF k \in DOMAIN data THEN data[k] ELSE FillDefault[k]]

\* predict_from_sensor from pd.read_csv to the filled data: what the rest of
\* the function works on.
Sensor_read(tbl) ==
  IF tbl.kind = "unreadable" THEN [kind |-> "unreadable"]
  ELSE IF tbl.n = 0 THEN [kind |-> "empty"]
  ELSE [kind |-> "rows",
        last |-> FillMissing(StandardizeLoop(iloc_last(tbl), <<>>))]

\* read_sensor_data of predict_hybrid.py from pd.read_csv to the filled data.
Hybrid_read(tbl) ==
  IF tbl.kind = "unreadable" THEN [kind |-> "unreadable"]
  ELSE IF tbl.n = 0 THEN [kind |-> "empty"]
  ELSE [kind |-> "rows",
        last |-> FillMissing(StandardizeLoop(iloc_last(tbl), <<>>))]

(* preprocess_sensor_data.py: the columns of a training table.           *)

\* column_mapping of standardize_columns, in the order of the dict.
train_column_mapping ==
  << <<"ph", "pH">>, <<"water_ph", "pH">>,
     <<"temperature", "Temperature">>, <<"temp", "Temperature">>,
     <<"water_temp", "Temperature">>, <<"temperature(c)", "Temperature">>,
     <<"temperature (c)", "Temperature">>, <<"tds", "TDS">>,
     <<"turbidity", "Turbidity">>, <<"turbidity(ntu)", "Turbidity">>,
     <<"turbidity (ntu)", "Turbidity">>, <<"do", "DO">>,
     <<"dissolved oxygen", "DO">>, <<"dissolved oxygen(g/ml)", "DO">>,
     <<"dissolved oxygen (g/ml)", "DO">>, <<"dissolved oxygen (mg/l)", "DO">>,
     <<"disolved oxygen", "DO">>, <<"water_quality", "WaterQuality">>,
     <<"quality", "WaterQuality">>, <<"status", "WaterQuality">> >>

\* `pattern in old_col` after df.columns.str.strip().str.lower(), for the
\* column names of the headers.
PatternIn(pattern, col) ==
  <<col, pattern>> \in
    {<<"pH", "ph">>, <<"ph", "ph">>, <<"phosphate", "ph">>,
     <<"Temperature", "temperature">>, <<"Temperature", "temp">>,
     <<"temp", "temp">>, <<"TDS", "tds">>, <<"tds", "tds">>,
     <<"Turbidity", "turbidity">>, <<"turbidity", "turbidity">>,
     <<"DO", "do">>, <<"do", "do">>}

\* Variant: "temp" names the TDS column and "tds" the Temperature column.
rename_dict_Off(col) ==
  IF PatternIn("temp", col) THEN "TDS"
  ELSE IF PatternIn("tds", col) THEN "Temperature"
  ELSE col

\* rename_dict: the new name of the first pattern of the dict that the
\* lower-cased column name contains, or the name unchanged.
rename_dict(col) ==
  LET hits == {j \in DOMAIN train_column_mapping :
                 PatternIn(train_column_mapping[j][1], col)}
  IN  IF hits = {} THEN col
      ELSE train_column_mapping[CHOOSE j \in hits : \A h \in hits : j <= h][2]

relevant_cols == <<"pH", "Temperature", "TDS", "Turbidity", "DO", "WaterQuality">>

\* df[keep_cols]: the renamed columns with a relevant name, in the order of
\* relevant_cols.
RECURSIVE KeepCols(_, _)
KeepCols(names, renamed) ==
  IF names = <<>> THEN <<>>
  ELSE LET Named(c) == c[1] = Head(names)
       IN  SelectSeq(renamed, Named) \o KeepCols(Tail(names), renamed)

\* standardize_columns on a header: the columns kept, each as <<new name,
\* column of the file>>; the cells of a kept column are those of the file.
standardize_columns(cols) ==
  KeepCols(relevant_cols,
           [j \in DOMAIN cols |-> <<rename_dict(cols[j]), cols[j]>>])

\* The amount create_risk_levels adds to score for column k of a row of a
\* table that has the column; it has no Temperature term.
TrainIncr(k, row) ==
  CASE k = "pH" ->
         IF row.pH < 6000 \/ row.pH > 9000 THEN 3
         ELSE IF row.pH < 6500 \/ row.pH > 8500 THEN 1 ELSE 0
    [] k = "TDS" ->
         IF row.TDS > 1000000 THEN 3
         ELSE IF row.TDS > 500000 THEN 1 ELSE 0
    [] k = "DO" ->
         IF row.DO < 3000 THEN 3
         ELSE IF row.DO < 5000 THEN 1 ELSE 0
    [] k = "Turbidity" ->
         IF row.Turbidity > 10000 THEN 3
         ELSE IF row.Turbidity > 5000 THEN 1 ELSE 0

\* create_risk_levels on a row of a table with all five columns: RiskLevel.
create_risk_levels(row) ==
  LET score == TrainIncr("pH", row) + TrainIncr("TDS", row)
                 + TrainIncr("DO", row) + TrainIncr("Turbidity", row)
  IN  IF score >= 6 THEN "High"
      ELSE IF score >= 3 THEN "Medium" ELSE "Low"

\* The labels of the training tables in the order np.unique sorts strings.
SortedLabels == <<"High", "Low", "Medium", "Safe", "Unsafe">>

\* LabelEncoder.fit: classes_ is the sorted distinct labels of the column.
LabelEncoder_fit(labels) == Pick(SortedLabels, labels)

\* LabelEncoder.transform: the 0-based position of the label in classes_.
LabelEncoder_transform(classes, label) ==
  (CHOOSE j \in DOMAIN classes : classes[j] = label) - 1

\* y_quality of extract_features on a WaterQuality column made by
\* create_quality_labels (Safe, Unsafe).
y_quality(label) ==
  LabelEncoder_transform(LabelEncoder_fit({"Safe", "Unsafe"}), label)

\* y_risk of extract_features on the RiskLevel column made by
\* create_risk_levels (Low, Medium, High).
y_risk(label) ==
  LabelEncoder_transform(LabelEncoder_fit({"Low", "Medium", "High"}), label)

(* predict.py on a table.                                                  *)

\* feature_columns.json as save_preprocessor writes it: the key "features"
\* with the columns of the training matrix, here all five or all but
\* Turbidity (a training set without that column).
FeatureConfigs ==
  {[features |-> possible_features],
   [features |-> Pick(possible_features, Params \ {"Turbidity"})]}

Range(seq) == {seq[j] : j \in DOMAIN seq}

\* column_mapping of preprocess_sensor_data in predict.py: the new name of a
\* column, renamed on an exact match only.
column_mapping(name) ==
  CASE name \in {"ph", "PH"} -> "pH"
    [] name \in {"temperature", "temp", "Temp"} -> "Temperature"
    [] name = "tds" -> "TDS"
    [] name = "turbidity" -> "Turbidity"
    [] name \in {"do", "DO", "dissolved_oxygen"} -> "DO"
    [] OTHER -> name

\* available_features: the recorded features that are columns of df after
\* the renaming, in the recorded order.
available_features(tbl, feature_columns) ==
  Pick(feature_columns.features,
       {column_mapping(c) : c \in Range(tbl.cols)})

\* The column of the file that df[feature] reads after the renaming.
SourceColumn(tbl, feature) ==
  CHOOSE c \in Range(tbl.cols) : column_mapping(c) = feature

\* sensor_data before the padding: the default row if no feature is there,
\* else df[available_features].values[:SEQUENCE_LENGTH].
Local_sensor_data(tbl, feats) ==
  IF feats = <<>> THEN << <<7000, 25000, 300000, 5000, 2000>> >>
  ELSE [i \in 1..Min(tbl.n, SEQUENCE_LENGTH) |->
          [j \in 1..Len(feats) |-> Cell(tbl, i, SourceColumn(tbl, feats[j]))]]

\* Variant: a padding of one row only.
Local_pad_One(sensor_data, width) ==
  IF Len(sensor_data) < SEQUENCE_LENGTH
  THEN sensor_data
         \o << IF Len(sensor_data) > 0 THEN sensor_data[Len(sensor_data)]
               ELSE [j \in 1..width |-> 0] >>
  ELSE SubSeq(sensor_data, 1, SEQUENCE_LENGTH)

\* "Ensure we have enough rows": pad with the last row, or with zeros if
\* there is no row.
Local_pad(sensor_data, width) ==
  IF Len(sensor_data) < SEQUENCE_LENGTH
  THEN LET last_row == IF Len(sensor_data) > 0
                       THEN sensor_data[Len(sensor_data)]
                       ELSE [j \in 1..width |-> 0]
       IN  sensor_data
             \o [i \in 1..(SEQUENCE_LENGTH - Len(sensor_data)) |-> last_row]
  ELSE SubSeq(sensor_data, 1, SEQUENCE_LENGTH)

\* The positions latest_reading takes its five values from.
Local_reading_order == <<"pH", "Temperature", "TDS", "DO", "Turbidity">>

\* A cell of the sequence the model is given: the value, the parameter it
\* was read as (of) and the training column whose place it takes (as).
FedRow(row, as_order, of_order) ==
  [j \in 1..Len(row) |->
     [as |-> as_order[j], of |-> of_order[j], v |-> row[j]]]

NoFed == [built |-> FALSE, seq |-> <<>>]

\* preprocess_sensor_data of predict.py on a table: it raises (read_csv on
\* an unreadable file, scaler.transform on a matrix whose width is not that
\* of the training matrix, latest_reading on a row of fewer than five
\* values), or gives the sequence and latest_reading.
Local_table(tbl, feature_columns) ==
  IF tbl.kind = "unreadable" THEN [raises |-> TRUE]
  ELSE LET feats == available_features(tbl, feature_columns)
           width == IF feats = <<>> THEN 5 ELSE Len(feats)
           sensor_data == Local_pad(Local_sensor_data(tbl, feats), width)
           last == sensor_data[Len(sensor_data)]
       IN  IF width # Len(feature_columns.features) THEN [raises |-> TRUE]
           ELSE IF width < 5 THEN [raises |-> TRUE]
           ELSE [raises |-> FALSE,
                 latest_reading |->
                   [pH |-> last[1], Temperature |-> last[2], TDS |-> last[3],
                    DO |-> last[4], Turbidity |-> last[5]],
                 fed |->
                   [built |-> TRUE,
                    seq |-> [i \in 1..Len(sensor_data) |->
                               FedRow(sensor_data[i], feature_columns.features,
                                      IF feats = <<>> THEN Local_reading_order
                                      ELSE feats)]]]

\* The table as the rest of make_prediction sees it.
Local_read(tbl, feature_columns) ==
  LET r == Local_table(tbl, feature_columns)
  IN  IF r.raises THEN [kind |-> "unreadable"]
      ELSE [kind |-> "rows", last |-> r.latest_reading]

(* predict_s3.py on a table.                                               *)

\* np.repeat(sensor_scaled, SEQUENCE_LENGTH, axis=0).
S3_repeat(row) == [i \in 1..SEQUENCE_LENGTH |-> row]

\* preprocess_sensor_data of predict_s3.py on a table: it raises (read_csv;
\* iloc[-1] of a matching column of a table without rows; scaler.transform
\* on a width other than the training matrix's), or gives the sequence and
\* data, the dict of the matched columns only.
S3_table(tbl, feature_config) ==
  IF tbl.kind = "unreadable" THEN [raises |-> TRUE]
  ELSE IF tbl.n = 0 /\ \E c \in Range(tbl.cols) : MatchColumn(c) # "none"
  THEN [raises |-> TRUE]
  ELSE LET data == IF tbl.n = 0 THEN <<>>
                   ELSE StandardizeLoop(iloc_last(tbl), <<>>)
           columns == IF "columns" \in DOMAIN feature_config
                      THEN feature_config.columns ELSE DefaultColumns
           features == [j \in 1..Len(columns) |->
                          IF columns[j] \in DOMAIN data
                          THEN data[columns[j]] ELSE 0]
       IN  IF Len(features) # Len(feature_config.features)
           THEN [raises |-> TRUE]
           ELSE [raises |-> FALSE,
                 data |-> data,
                 fed |->
                   [built |-> TRUE,
                    seq |-> S3_repeat(FedRow(features, feature_config.features,
                                             columns))]]

\* The table as the rest of make_prediction sees it.
S3_read(tbl, feature_config) ==
  LET r == S3_table(tbl, feature_config)
  IN  IF r.raises THEN [kind |-> "unreadable"]
      ELSE [kind |-> "rows", last |-> r.data]

----------------------------------------------------------------------------
(* The runs.                                                               *)

Scripts == RuleScripts \cup {"local", "s3"}

\* The process ends: what it printed, and status 1 after sys.exit(1).
Exit(p, ran) ==
  /\ out' = [out EXCEPT ![p] = ran.printed]
  /\ rc' = [rc EXCEPT ![p] = IF ran.exc = "SystemExit" THEN 1 ELSE 0]
  /\ risk_score' = [risk_score EXCEPT ![p] = ran.score]
  /\ visual_risk' = [visual_risk EXCEPT ![p] = ran.visual]
  /\ pc' = [pc EXCEPT ![p] = "done"]

\* __main__ of every script: a wrong number of arguments.
UsageError(p) ==
  /\ pc[p] = "start"
  /\ Exit(p, Ran(<<ErrorObj("Usage")>>, "SystemExit", -1, 0))
  /\ UNCHANGED <<script, s3vars, tvars>>

RunSensorOnly(p) ==
  /\ pc[p] = "start" /\ script[p] = "sensor_only"
  /\ \E csv \in CsvInputs : Exit(p, predict_from_sensor(csv))
  /\ UNCHANGED <<script, s3vars, tvars>>

RunHybrid(p) ==
  /\ pc[p] = "start" /\ script[p] = "hybrid"
  /\ \E csv \in CsvInputs, img \in HybridImageInputs :
       Exit(p, predict(img, csv))
  /\ UNCHANGED <<script, s3vars, tvars>>

RunImageOnly(p) ==
  /\ pc[p] = "start" /\ script[p] = "image_only"
  /\ \E img \in ImageInputs : Exit(p, predict_from_image(img))
  /\ UNCHANGED <<script, s3vars, tvars>>

RunLocal(p) ==
  /\ pc[p] = "start" /\ script[p] = "local"
  /\ \E art \in ArtifactStates, img \in ModelImageInputs,
        csv \in ModelCsvInputs, mo \in ModelOutputs :
       Exit(p, Local_make_prediction(art, img, csv, mo))
  /\ UNCHANGED <<script, s3vars, tvars>>

(* predict_s3.py, one action per step that reads or writes model_cache.    *)

\* make_prediction -> load_model_from_s3 -> download_model_from_s3: the
\* loop starts.
S3Begin(p) ==
  /\ pc[p] = "start" /\ script[p] = "s3"
  /\ pc' = [pc EXCEPT ![p] = "check"]
  /\ idx' = [idx EXCEPT ![p] = 1]
  /\ warm' = [warm EXCEPT ![p] =
                \A a \in Artifacts : files[FinalPath(a)] = "complete"]
  /\ UNCHANGED <<script, out, rc, risk_score, visual_risk, files, paths,
                 fetched, got, dlfail, preloaded, tvars>>

\* The next iteration, or the return of the four paths after the last one.
Advance(p) ==
  IF idx[p] < Len(Order)
  THEN /\ idx' = [idx EXCEPT ![p] = idx[p] + 1]
       /\ pc' = [pc EXCEPT ![p] = "check"]
       /\ paths' = paths
  ELSE /\ idx' = idx
       /\ pc' = [pc EXCEPT ![p] = "load"]
       /\ paths' = [paths EXCEPT ![p] = ReturnedPaths]

\* `if not local_path.exists():` for the current file.
S3Check(p) ==
  /\ pc[p] = "check"
  /\ IF NeedsDownload(Order[idx[p]])
     THEN /\ pc' = [pc EXCEPT ![p] = "download"]
          /\ UNCHANGED <<idx, paths>>
     ELSE Advance(p)
  /\ UNCHANGED <<script, out, rc, risk_score, visual_risk, files, fetched,
                 got, warm, dlfail, preloaded, tvars>>

\* download_file begins: the request is sent and the body starts to arrive.
S3StartDownload(p) ==
  /\ pc[p] = "download"
  /\ pc' = [pc EXCEPT ![p] = "inflight"]
  /\ fetched' = [fetched EXCEPT ![p] = @ \cup {Order[idx[p]]}]
  /\ files' = [files EXCEPT ![DownloadTarget(p, Order[idx[p]])] = "partial"]
  /\ UNCHANGED <<script, out, rc, risk_score, visual_risk, idx, paths, got,
                 warm, dlfail, preloaded, tvars>>

\* download_file returns: the body is complete and is renamed into place.
S3DownloadDone(p) ==
  /\ pc[p] = "inflight"
  /\ LET a == Order[idx[p]]
     IN  /\ files' = [[files EXCEPT ![DownloadTarget(p, a)] = "absent"]
                          EXCEPT ![FinalPath(a)] = "complete"]
         /\ got' = [got EXCEPT ![p] = @ \cup {a}]
  /\ Advance(p)
  /\ UNCHANGED <<script, out, rc, risk_score, visual_risk, fetched, warm,
                 dlfail, preloaded, tvars>>

\* download_file raises (a storage error, or botocore's connect/read
\* timeout when the store does not answer): the exception is re-raised by
\* download_model_from_s3 and load_model_from_s3 and handled by
\* make_prediction.
S3DownloadFail(p, Kinds) ==
  /\ pc[p] = "inflight"
  /\ \E kind \in Kinds :
       dlfail' = [dlfail EXCEPT ![p] = kind]
  /\ files' = [files EXCEPT ![DownloadTarget(p, Order[idx[p]])] = "absent"]
  /\ Exit(p, TryExceptExit(Ran(<<>>, "Exception", -1, 0), "Prediction error"))
  /\ UNCHANGED <<script, idx, paths, fetched, got, warm, preloaded, tvars>>

\* The process is killed while the body arrives: nothing is cleaned up.
S3Interrupt(p) ==
  /\ pc[p] = "inflight"
  /\ pc' = [pc EXCEPT ![p] = "killed"]
  /\ UNCHANGED <<script, out, rc, risk_score, visual_risk, s3vars, tvars>>

\* load_model_from_s3 reads the four files: keras, joblib and json raise on
\* a file that is not whole, and may raise on a whole one.
S3Load(p) ==
  /\ pc[p] = "load"
  /\ \E loads \in BOOLEAN :
       IF loads /\ \A k \in DOMAIN paths[p] : files[paths[p][k]] = "complete"
       THEN /\ pc' = [pc EXCEPT ![p] = "infer"]
            /\ UNCHANGED <<out, rc, risk_score, visual_risk>>
       ELSE Exit(p, TryExceptExit(Ran(<<>>, "Exception", -1, 0),
                                  "Prediction error"))
  /\ UNCHANGED <<script, s3vars, tvars>>

\* The rest of make_prediction.
S3Finish(p, Imgs, Csvs, Outs, Ups) ==
  /\ pc[p] = "infer"
  /\ \E img \in Imgs, csv \in Csvs, mo \in Outs, up \in Ups :
       Exit(p, TryExceptExit(S3_predict_and_print(img, csv, mo, up),
                             "Prediction error"))
  /\ UNCHANGED <<script, s3vars, tvars>>

\* The ways download_file fails, and the outcomes of the upload of the result.
FailureKinds == {"error", "timeout"}

UploadOutcomes == {"ok", "fail"}

S3Step(p, Imgs, Csvs, Outs, Kinds, Ups) ==
  \/ S3Begin(p)
  \/ S3Check(p)
  \/ S3StartDownload(p)
  \/ S3DownloadDone(p)
  \/ S3DownloadFail(p, Kinds)
  \/ S3Interrupt(p)
  \/ S3Load(p)
  \/ S3Finish(p, Imgs, Csvs, Outs, Ups)

\* The cache directory holds the artifacts in `present`, whole.
InitCache(present) ==
  /\ preloaded = present
  /\ files = [f \in CachePaths |->
                IF f[2] = 0 /\ f[1] \in present THEN "complete" ELSE "absent"]
  /\ idx = [p \in Procs |-> 0]
  /\ paths = [p \in Procs |-> NoPaths]
  /\ fetched = [p \in Procs |-> {}]
  /\ got = [p \in Procs |-> {}]
  /\ warm = [p \in Procs |-> FALSE]
  /\ dlfail = [p \in Procs |-> "none"]

InitRuns ==
  /\ out = [p \in Procs |-> <<>>]
  /\ rc = [p \in Procs |-> 0]
  /\ risk_score = [p \in Procs |-> -1]
  /\ visual_risk = [p \in Procs |-> 0]
  /\ table = [p \in Procs |-> NoTable]
  /\ fed = [p \in Procs |-> NoFed]

\* One request: run 1 executes one script, the other runs are not started.
\* The cache is cold or warm (it is read by predict_s3.py only).
Init ==
  /\ pc = [p \in Procs |-> IF p = 1 THEN "start" ELSE "off"]
  /\ script \in {f \in [Procs -> Scripts \cup {"none"}] :
                   \A p \in Procs : (f[p] = "none") <=> (p # 1)}
  /\ InitRuns
  /\ \E present \in {{}, Artifacts} :
       /\ script[1] = "s3" \/ present = {}
       /\ InitCache(present)

Next ==
  \E p \in Procs :
    \/ UsageError(p)
    \/ RunSensorOnly(p)
    \/ RunHybrid(p)
    \/ RunImageOnly(p)
    \/ RunLocal(p)
    \/ S3Step(p, ModelImageInputs, ModelCsvInputs, ModelOutputs,
              FailureKinds, UploadOutcomes)

Spec == Init /\ [][Next]_vars

\* Concurrent requests: every run executes predict_s3.py on one image and one
\* table, over a cold or a warm cache.
ConcImages == {img \in ModelImageInputs : img.kind = "ok"}

ConcCsvs ==
  {c \in ModelCsvInputs :
     c.kind = "rows" /\ c.last = [pH |-> 7000, Temperature |-> 25000,
                                  TDS |-> 300000, Turbidity |-> 2000,
                                  DO |-> 6000]}

ConcOutputs ==
  {mo \in ModelOutputs : ~mo.raises /\ mo.qconf = 99 /\ mo.q = 0 /\ mo.r = 0}

InitConc ==
  /\ pc = [p \in Procs |-> "start"]
  /\ script = [p \in Procs |-> "s3"]
  /\ InitRuns
  /\ \E present \in {{}, Artifacts} : InitCache(present)

NextConc ==
  \E p \in Procs :
    \/ UsageError(p)
    \/ S3Step(p, ConcImages, ConcCsvs, ConcOutputs, {"timeout"}, {"ok"})

SpecConc == InitConc /\ [][NextConc]_vars

\* Requests on tables given with their columns and rows: one run of
\* predict_sensor_only.py, predict_hybrid.py, predict.py or predict_s3.py
\* (over a warm cache), on a decodable image where the script takes one.
TableImage == [kind |-> "ok", green |-> 0, lap |-> 400, bright |-> 100]

TableOutput ==
  [raises |-> FALSE, q |-> 0, r |-> 0, qconf |-> 99, rconf |-> 34]

RunSensorOnlyTable(p) ==
  /\ pc[p] = "start" /\ script[p] = "sensor_only"
  /\ \E tbl \in Tables :
       /\ Exit(p, predict_from_sensor(Sensor_read(tbl)))
       /\ table' = [table EXCEPT ![p] = tbl]
  /\ UNCHANGED <<script, s3vars, fed>>

RunHybridTable(p) ==
  /\ pc[p] = "start" /\ script[p] = "hybrid"
  /\ \E tbl \in Tables :
       /\ Exit(p, predict(TableImage, Hybrid_read(tbl)))
       /\ table' = [table EXCEPT ![p] = tbl]
  /\ UNCHANGED <<script, s3vars, fed>>

RunLocalTable(p) ==
  /\ pc[p] = "start" /\ script[p] = "local"
  /\ \E tbl \in Tables, feature_columns \in FeatureConfigs :
       LET r == Local_table(tbl, feature_columns)
       IN  /\ Exit(p, Local_make_prediction("ok", TableImage,
                          Local_read(tbl, feature_columns), TableOutput))
           /\ table' = [table EXCEPT ![p] = tbl]
           /\ fed' = [fed EXCEPT ![p] = IF r.raises THEN NoFed ELSE r.fed]
  /\ UNCHANGED <<script, s3vars>>

S3FinishTable(p) ==
  /\ pc[p] = "infer"
  /\ \E tbl \in Tables, feature_config \in FeatureConfigs :
       LET r == S3_table(tbl, feature_config)
       IN  /\ Exit(p, TryExceptExit(
                        S3_predict_and_print(TableImage,
                          S3_read(tbl, feature_config), TableOutput, "ok"),
                        "Prediction error"))
           /\ table' = [table EXCEPT ![p] = tbl]
           /\ fed' = [fed EXCEPT ![p] = IF r.raises THEN NoFed ELSE r.fed]
  /\ UNCHANGED <<script, s3vars>>

InitTable ==
  /\ pc = [p \in Procs |-> IF p = 1 THEN "start" ELSE "off"]
  /\ script \in {f \in [Procs -> {"sensor_only", "hybrid", "local", "s3",
                                   "none"}] :
                   \A p \in Procs : (f[p] = "none") <=> (p # 1)}
  /\ InitRuns
  /\ InitCache(Artifacts)

NextTable ==
  \E p \in Procs :
    \/ RunSensorOnlyTable(p)
    \/ RunHybridTable(p)
    \/ RunLocalTable(p)
    \/ S3Begin(p)
    \/ S3Check(p)
    \/ S3Load(p)
    \/ S3FinishTable(p)

SpecTable == InitTable /\ [][NextTable]_vars

----------------------------------------------------------------------------
(* Properties.                                                             *)

Done(p) == pc[p] = "done"

IsError(o) == DOMAIN o = {"error"}

IsResult(o) ==
  /\ "error" \notin DOMAIN o
  /\ {"water_quality", "risk_level", "confidence", "sensor_readings",
      "parameters"} \subseteq DOMAIN o

\* Run p printed one object, a result.
HasResult(p) == Len(out[p]) = 1 /\ IsResult(out[p][1])

Result(p) == out[p][1]

\* The score-to-label mapping of the specification.
ScoreToLabel(s) ==
  IF s >= 6 THEN <<"Unsafe", "High">>
  ELSE IF s >= 3 THEN <<"Unsafe", "Medium">> ELSE <<"Safe", "Low">>

\* The normal range of parameter k.
InRange(k, v) ==
  CASE k = "pH" -> 6500 <= v /\ v <= 8500
    [] k = "Temperature" -> 15000 <= v /\ v <= 30000
    [] k = "TDS" -> v < 500000
    [] k = "Turbidity" -> v < 5000
    [] k = "DO" -> v > 5000

\* The severe band of parameter k.
Severe(k, v) ==
  CASE k = "pH" -> v < 6000 \/ v > 9000
    [] k = "Temperature" -> v < 10000 \/ v > 35000
    [] k = "TDS" -> v > 1000000
    [] k = "Turbidity" -> v > 10000
    [] k = "DO" -> v < 3000

\* C1: in each of the three rule-based scripts the labels of the result are
\* the specification's mapping of the scorer's total risk score: >= 6 gives
\* (Unsafe, High), 3..5 gives (Unsafe, Medium), < 3 gives (Safe, Low).
C1_SameScoreToLabel ==
  \A p \in Procs :
    (Done(p) /\ script[p] \in RuleScripts /\ HasResult(p))
      => <<Result(p).water_quality, Result(p).risk_level>>
           = ScoreToLabel(risk_score[p])

C1_Witness ==
  \E p \in Procs :
    /\ Done(p) /\ script[p] = "hybrid" /\ HasResult(p)
    /\ risk_score[p] = 6 /\ visual_risk[p] > 0
    /\ Result(p).risk_level = "High"

\* C2: a reading with every parameter in its normal range and no visual
\* increment scores 0 and is Safe / Low, in the sensor-only and the hybrid
\* script.
C2_InRangeIsSafe ==
  \A p \in Procs :
    (/\ Done(p) /\ script[p] \in {"sensor_only", "hybrid"} /\ HasResult(p)
     /\ visual_risk[p] = 0
     /\ \A k \in Params : InRange(k, Result(p).sensor_readings[k]))
      => /\ risk_score[p] = 0
         /\ Result(p).water_quality = "Safe"
         /\ Result(p).risk_level = "Low"

C2_Witness ==
  \E p \in Procs :
    /\ Done(p) /\ script[p] = "sensor_only" /\ HasResult(p)
    /\ Result(p).sensor_readings =
         [pH |-> 8500, Temperature |-> 15000, TDS |-> 499990,
          Turbidity |-> 4990, DO |-> 5010]
    /\ Result(p).water_quality = "Safe"

\* The amount the scorer of script s adds for parameter k.
IncrOf(s, k, r) ==
  CASE s = "sensor_only" -> SensorIncr(k, r)
    [] s = "hybrid" -> HybridIncr(k, r)
    [] s = "image_only" -> ImageIncr(k, r)

\* C3 (as claimed): in every rule-based script a parameter is reported
\* Abnormal exactly when the scorer adds a non-zero amount for it, also at
\* TDS = 500, DO = 5 and Turbidity = 5.
C3_AbnormalIffScored ==
  \A p \in Procs :
    (Done(p) /\ script[p] \in RuleScripts /\ HasResult(p))
      => \A k \in Params :
           (Result(p).parameters[k].status = "Abnormal")
             <=> (IncrOf(script[p], k, Result(p).sensor_readings) # 0)

\* C4: a reading with one parameter in its severe band and the others in
\* their normal range scores at least 3 and is Unsafe.
C4_OneSevereIsUnsafe ==
  \A p \in Procs :
    (/\ Done(p) /\ script[p] \in RuleScripts /\ HasResult(p)
     /\ \E k \in Params :
          /\ Severe(k, Result(p).sensor_readings[k])
          /\ \A j \in Params \ {k} :
               InRange(j, Result(p).sensor_readings[j]))
      => risk_score[p] >= 3 /\ Result(p).water_quality = "Unsafe"

C4_Witness ==
  \E p \in Procs :
    /\ Done(p) /\ script[p] = "sensor_only" /\ HasResult(p)
    /\ Result(p).sensor_readings =
         [pH |-> 5500, Temperature |-> 25000, TDS |-> 300000,
          Turbidity |-> 2000, DO |-> 6000]
    /\ risk_score[p] = 3

\* C5 (as claimed): a run of the model script that found the cache cold and
\* whose fetch failed or timed out (it is given an image and a table: the
\* script takes both) ends with one result whose method is "hybrid".
C5_FetchFailureFallsBackToHybrid ==
  \A p \in Procs :
    (Done(p) /\ script[p] = "s3" /\ ~warm[p] /\ dlfail[p] # "none")
      => HasResult(p) /\ Result(p).method = "hybrid"

\* Runs whose download of artifact a was started and has not failed.
Downloaders(a) ==
  {p \in Procs : a \in fetched[p] /\ dlfail[p] = "none" /\ pc[p] # "killed"}

\* C6 (as claimed): under concurrent callers over a cold cache no artifact
\* is downloaded by two callers.
C6_OneFetchPerArtifact ==
  \A a \in Artifacts : Cardinality(Downloaders(a)) <= 1

C9_TimeoutCompletesByFallback ==
  \A p \in Procs :
    (Done(p) /\ dlfail[p] = "timeout")
      => /\ HasResult(p)
         /\ Result(p).method \in {"hybrid", "sensor_only", "image_only"}

\* C10: a run that ended printed exactly one JSON object, a result or an
\* object with the only key "error".
C10_OneObject ==
  \A p \in Procs :
    Done(p) =>
      /\ Len(out[p]) = 1
      /\ IsError(out[p][1]) \/ IsResult(out[p][1])
      /\ ~(IsError(out[p][1]) /\ IsResult(out[p][1]))

\* predict.py whose model files are missing: the helper printed the error
\* and exited.
C10_Witness ==
  \E p \in Procs :
    /\ Done(p) /\ script[p] = "local" /\ rc[p] = 1
    /\ out[p] = <<ErrorObj("Model files not found")>>

\* C11 (as claimed): every result a script prints carries a method, one of
\* sensor_only, image_only, hybrid, fusion_model.
C11_ResultHasMethod ==
  \A p \in Procs :
    (Done(p) /\ HasResult(p))
      => /\ "method" \in DOMAIN Result(p)
         /\ Result(p).method
              \in {"sensor_only", "image_only", "hybrid", "fusion_model"}

\* C12 (as claimed): a result of a model script (predict.py, predict_s3.py)
\* has water_quality in {Safe, Unsafe} and risk_level in {Low, Medium, High},
\* for every pair of class indices the model outputs.
C12_ModelLabelsDecoded ==
  \A p \in Procs :
    (Done(p) /\ script[p] \in {"local", "s3"} /\ HasResult(p))
      => /\ Result(p).water_quality \in {"Safe", "Unsafe"}
         /\ Result(p).risk_level \in {"Low", "Medium", "High"}

\* C19 (as claimed): in the image-only script every image with a green ratio
\* above 0.3 and low clarity (a Laplacian variance below 50, the "very
\* blurry" band of the image analysis) gives an estimated DO below 5, an
\* abnormal Turbidity, method image_only and water_quality Unsafe.
C19_GreenBlurredIsUnsafe ==
  \A p \in Procs :
    (Done(p) /\ script[p] = "image_only" /\ HasResult(p))
      => \A img \in ImageInputs :
           (/\ img.kind = "ok" /\ img.green > 300 /\ img.lap < 50
            /\ Result(p).sensor_readings = analyze_image_features(img))
             => /\ Result(p).sensor_readings.DO < 5000
                /\ Result(p).parameters.Turbidity.status = "Abnormal"
                /\ Result(p).method = "image_only"
                /\ Result(p).water_quality = "Unsafe"

\* The parameters a table has a column of.
Present(tbl) == {Measures(c) : c \in Range(tbl.cols)} \ {"none"}

\* The value of parameter k in row i of a table that has a column of it.
TrueCell(tbl, i, k) ==
  Cell(tbl, i, CHOOSE c \in Range(tbl.cols) : Measures(c) = k)

\* Run p was given a readable table, modelled with its columns and rows.
OnTable(p) == table[p].kind \in TableKinds

\* C13 (as claimed): every value of a sequence built for the model stands in
\* the place of the training column of its own parameter; where the order
\* used differs from the recorded one, no sequence is built and the request
\* fails.
C13_RecordedOrderUsed ==
  \A p \in Procs :
    fed[p].built =>
      \A i \in DOMAIN fed[p].seq : \A j \in DOMAIN fed[p].seq[i] :
        fed[p].seq[i][j].as = fed[p].seq[i][j].of

\* C14 (as claimed): on a table with at least one row and any subset of the
\* five parameter columns, every script that takes a table ends with a
\* result whose sensor_readings hold all five parameters, an absent one with
\* its default (pH 7.0, Temperature 25.0, TDS 300.0, Turbidity 2.0, DO 6.0).
C14_MissingColumnsDefaulted ==
  \A p \in Procs :
    (/\ Done(p) /\ OnTable(p) /\ table[p].n >= 1
     /\ table[p].cols = SubsetColumns(Present(table[p])))
      => /\ HasResult(p)
         /\ \A k \in Params :
              /\ k \in DOMAIN Result(p).sensor_readings
              /\ k \notin Present(table[p])
                   => Result(p).sensor_readings[k] = FillDefault[k]

\* C15: a sensor sequence built for the model has SEQUENCE_LENGTH time
\* steps, whatever the number of rows of the table.
C15_SequenceLength ==
  \A p \in Procs : fed[p].built => Len(fed[p].seq) = SEQUENCE_LENGTH

\* predict.py on a table of a header and no row.
C15_Witness ==
  \E p \in Procs :
    /\ Done(p) /\ script[p] = "local" /\ fed[p].built
    /\ table[p].n = 0 /\ Present(table[p]) = Params

\* C16 (as claimed): for a table of more than SEQUENCE_LENGTH rows the
\* sequence is the last SEQUENCE_LENGTH rows in their order and the reported
\* reading is the last row.
C16_MostRecentRows ==
  \A p \in Procs :
    (/\ Done(p) /\ OnTable(p) /\ fed[p].built /\ HasResult(p)
     /\ table[p].n > SEQUENCE_LENGTH /\ Present(table[p]) = Params)
      => /\ \A i \in 1..SEQUENCE_LENGTH : \A j \in DOMAIN fed[p].seq[i] :
              fed[p].seq[i][j].v
                = TrueCell(table[p], table[p].n - SEQUENCE_LENGTH + i,
                           fed[p].seq[i][j].of)
         /\ \A k \in Params :
              Result(p).sensor_readings[k] = TrueCell(table[p], table[p].n, k)

\* C17 (as claimed): for a table of n < SEQUENCE_LENGTH rows the sequence is
\* the n rows followed by copies of the last row, and for a table without
\* rows it is SEQUENCE_LENGTH copies of the all-defaults reading.
C17_PaddedWithLastRow ==
  \A p \in Procs :
    (/\ OnTable(p) /\ fed[p].built
     /\ table[p].n < SEQUENCE_LENGTH /\ Present(table[p]) = Params)
      => \A i \in 1..SEQUENCE_LENGTH : \A j \in DOMAIN fed[p].seq[i] :
           fed[p].seq[i][j].v
             = IF table[p].n = 0 THEN FillDefault[fed[p].seq[i][j].of]
               ELSE TrueCell(table[p], Min(i, table[p].n),
                             fed[p].seq[i][j].of)

\* The table of one row, the last row of tbl.
LastRowTable(tbl) ==
  [cols |-> tbl.cols, n |-> 1,
   kind |-> IF tbl.kind = "bad_first" THEN "steady" ELSE tbl.kind]

\* C18: predict_sensor_only.py prints on a table what it prints on the
\* table of its last row alone; a result has method sensor_only, and with
\* the last row pH 7.1, Temperature 24, TDS 280, Turbidity 1.5, DO 6.2 it is
\* Safe / Low.
C18_LastRowOnly ==
  \A p \in Procs :
    (Done(p) /\ script[p] = "sensor_only" /\ OnTable(p) /\ table[p].n >= 1)
      => /\ out[p]
              = predict_from_sensor(Sensor_read(LastRowTable(table[p]))).printed
         /\ HasResult(p)
         /\ Result(p).method = "sensor_only"
         /\ Result(p).sensor_readings = ScenarioA
              => /\ Result(p).water_quality = "Safe"
                 /\ Result(p).risk_level = "Low"

\* A table whose earlier rows are all severe and whose last row is the
\* scenario's.
C18_Witness ==
  \E p \in Procs :
    /\ Done(p) /\ script[p] = "sensor_only" /\ HasResult(p)
    /\ table[p].kind = "bad_first" /\ table[p].n > 1
    /\ table[p].cols = DefaultColumns
    /\ Result(p).sensor_readings = ScenarioA
    /\ Result(p).water_quality = "Safe"

\* The first column of the header that the chain matches to parameter k.
FirstMatch(tbl, k) ==
  LET M == {j \in DOMAIN tbl.cols : MatchColumn(tbl.cols[j]) = k}
  IN  tbl.cols[CHOOSE j \in M : \A h \in M : j <= h]

\* C20 (as claimed): where two columns match the same parameter, the reading
\* holds the value of the first of them in column order.
C20_FirstMatchWins ==
  \A p \in Procs :
    (/\ Done(p) /\ OnTable(p) /\ HasResult(p) /\ table[p].n >= 1
     /\ script[p] \in {"sensor_only", "hybrid", "s3"}
     /\ \E i, j \in DOMAIN table[p].cols :
          i # j /\ MatchColumn(table[p].cols[i]) = "pH"
                /\ MatchColumn(table[p].cols[j]) = "pH")
      => Result(p).sensor_readings.pH
           = Cell(table[p], table[p].n, FirstMatch(table[p], "pH"))

\* The header of a table is the five canonical names, each once.
Canonical(tbl) == Len(tbl.cols) = 5 /\ Range(tbl.cols) = Params

\* C21: on a table whose columns are exactly pH, Temperature, TDS,
\* Turbidity, DO, predict_sensor_only.py and predict_hybrid.py report for
\* every parameter the value of the column of that name in the last row,
\* and standardize_columns keeps every column under its own name.
C21_CanonicalColumnsKept ==
  \A p \in Procs :
    (/\ Done(p) /\ OnTable(p) /\ table[p].n >= 1 /\ Canonical(table[p])
     /\ script[p] \in {"sensor_only", "hybrid"})
      => /\ HasResult(p)
         /\ \A k \in Params :
              Result(p).sensor_readings[k] = Cell(table[p], table[p].n, k)
         /\ standardize_columns(table[p].cols)
              = [j \in 1..5 |-> <<DefaultColumns[j], DefaultColumns[j]>>]

\* predict_hybrid.py on a canonical table given in the training order, whose
\* last row is the severe one.
C21_Witness ==
  \E p \in Procs :
    /\ Done(p) /\ script[p] = "hybrid" /\ HasResult(p)
    /\ table[p].cols = possible_features /\ table[p].kind = "bad_last"
    /\ table[p].n = 2
    /\ Result(p).sensor_readings = SevereRow

\* The output of run p is what its script prints on an image that cannot be
\* decoded, with a loadable model, a readable table and a model that answers.
OnUndecodableImage(p) ==
  \E img \in ImageInputs, csv \in ModelCsvInputs, mo \in ModelOutputs :
    /\ img.kind = "undecodable" /\ csv.kind = "rows" /\ ~mo.raises
    /\ out[p] = CASE script[p] = "hybrid" -> predict(img, csv).printed
                  [] script[p] = "local" ->
                       Local_make_prediction("ok", img, csv, mo).printed
                  [] script[p] = "s3" ->
                       TryExceptExit(S3_predict_and_print(img, csv, mo, "ok"),
                                     "Prediction error").printed
                  [] OTHER -> <<>>

\* C22 (as claimed): in every script that takes an image and a table
\* (predict_hybrid.py, predict.py, predict_s3.py), what is printed for an
\* image that cannot be decoded is a result and never an error, and the
\* visual increment of such an image is 0.
C22_UndecodableImageStillPredicts ==
  /\ \A img \in ImageInputs :
       img.kind = "undecodable" => analyze_image(img) = 0
  /\ \A p \in Procs :
       (Done(p) /\ script[p] \in {"hybrid", "local", "s3"} /\ ~HasResult(p))
         => ~OnUndecodableImage(p)

\* The confidences of a rule-based script as a function of the script and
\* the risk score alone.
RuleConfidence(path, s) ==
  CASE path = "sensor_only" ->
         IF s >= 6 THEN [quality |-> 92, risk |-> 89]
         ELSE IF s >= 3 THEN [quality |-> 88, risk |-> 85]
         ELSE [quality |-> 95, risk |-> 92]
    [] path = "hybrid" ->
         IF s >= 6 THEN [quality |-> 95, risk |-> 93]
         ELSE IF s >= 3 THEN [quality |-> 92, risk |-> 90]
         ELSE [quality |-> 97, risk |-> 95]
    [] path = "image_only" ->
         [quality |-> Min(95, 70 + 3 * s), risk |-> Min(95, 70 + 3 * s) - 5]

\* C23: in every result of a rule-based script both confidences lie in
\* 0..100 and are a function of the script and the risk score.
C23_RuleConfidences ==
  \A p \in Procs :
    (Done(p) /\ script[p] \in RuleScripts /\ HasResult(p))
      => /\ Result(p).confidence.quality \in 0..100
         /\ Result(p).confidence.risk \in 0..100
         /\ Result(p).confidence = RuleConfidence(script[p], risk_score[p])

\* predict_sensor_only.py on a reading that scores 9 or more.
C23_Witness ==
  \E p \in Procs :
    /\ Done(p) /\ script[p] = "sensor_only" /\ HasResult(p)
    /\ risk_score[p] >= 9
    /\ Result(p).confidence = [quality |-> 92, risk |-> 89]

\* C24: a result of predict_hybrid.py on reading r and an image of visual
\* increment v has v in 0..4 and the labels the score-to-label mapping gives
\* to (the score of predict_sensor_only.py on r) + v; with v = 0 they are the
\* labels predict_sensor_only.py gives to r.
C24_HybridIsSensorPlusVisual ==
  \A p \in Procs :
    (Done(p) /\ script[p] = "hybrid" /\ HasResult(p))
      => LET r == Result(p).sensor_readings
             v == visual_risk[p]
         IN  /\ v \in 0..4
             /\ risk_score[p] = SensorScore(r) + v
             /\ <<Result(p).water_quality, Result(p).risk_level>>
                  = ScoreToLabel(SensorScore(r) + v)
             /\ v = 0 =>
                  /\ Result(p).water_quality = assess_risk_from_sensor(r).quality
                  /\ Result(p).risk_level = assess_risk_from_sensor(r).risk

\* A reading predict_sensor_only.py calls Safe, High with a green and
\* blurred image.
C24_Witness ==
  \E p \in Procs :
    /\ Done(p) /\ script[p] = "hybrid" /\ HasResult(p)
    /\ visual_risk[p] = 4
    /\ SensorScore(Result(p).sensor_readings) = 2
    /\ Result(p).risk_level = "High"

\* C25 (as claimed): the labels predict.py reports are the ones the model
\* was trained on: the class index the training encoders give to a reported
\* label is decoded by quality_labels / risk_labels to that label.
C25_DecodingInvertsEncoding ==
  \A p \in Procs :
    (Done(p) /\ script[p] = "local" /\ HasResult(p))
      => /\ Local_quality_label(y_quality(Result(p).water_quality))
              = Result(p).water_quality
         /\ Local_risk_label(y_risk(Result(p).risk_level))
              = Result(p).risk_level

\* C26 (as claimed): the risk level predict_sensor_only.py reports for a
\* reading is the RiskLevel create_risk_levels gives to the same reading as
\* a row of a training table.
C26_TrainingRiskIsInferenceRisk ==
  \A p \in Procs :
    (Done(p) /\ script[p] = "sensor_only" /\ HasResult(p))
      => Result(p).risk_level = create_risk_levels(Result(p).sensor_readings)

\* C27: in every result of predict_image_only.py the estimates satisfy
\* pH in [7, 9], Turbidity in [0, 10], TDS in [300, 600] and DO in [3, 8],
\* none of the four is in its severe band, and the risk is High only with an
\* estimated Temperature above 35.
C27_ImageEstimatesBounded ==
  \A p \in Procs :
    (Done(p) /\ script[p] = "image_only" /\ HasResult(p))
      => LET r == Result(p).sensor_readings
         IN  /\ 7000 <= r.pH /\ r.pH <= 9000
             /\ 0 <= r.Turbidity /\ r.Turbidity <= 10000
             /\ 300000 <= r.TDS /\ r.TDS <= 600000
             /\ 3000 <= r.DO /\ r.DO <= 8000
             /\ \A k \in {"pH", "Turbidity", "TDS", "DO"} : ~Severe(k, r[k])
             /\ Result(p).risk_level = "High" => r.Temperature > 35000

\* An image all green and without detail, of brightness 150: all four
\* estimates on their bounds, Temperature 35, risk Medium.
C27_Witness ==
  \E p \in Procs :
    /\ Done(p) /\ script[p] = "image_only" /\ HasResult(p)
    /\ Result(p).sensor_readings
         = [pH |-> 9000, Temperature |-> 35000, TDS |-> 600000,
            Turbidity |-> 10000, DO |-> 3000]
    /\ risk_score[p] = 5
    /\ Result(p).risk_level = "Medium"

S3Printed(img, sensor_readings, mo, up) ==
  TryExceptExit(
    S3_predict_and_print(img, [kind |-> "rows", last |-> sensor_readings],
                         mo, up),
    "Prediction error").printed

\* A result without its s3_key field.
WithoutKey(result) == [k \in DOMAIN result \ {"s3_key"} |-> result[k]]

\* C29: where predict_s3.py printed a result, then on the same table, for
\* every image and model output on which it prints a result when the upload
\* succeeds, it prints with a failed upload that one result without the
\* s3_key field and no error object; the result of the run is one of these.
C29_UploadFailureKeepsResult ==
  \A p \in Procs :
    (Done(p) /\ script[p] = "s3" /\ HasResult(p))
      => LET r == Result(p).sensor_readings
         IN  /\ \A img \in ModelImageInputs, mo \in ModelOutputs :
                  LET ok == S3Printed(img, r, mo, "ok")
                      failed == S3Printed(img, r, mo, "fail")
                  IN  (Len(ok) = 1 /\ IsResult(ok[1]))
                        => /\ "s3_key" \in DOMAIN ok[1]
                           /\ failed = <<WithoutKey(ok[1])>>
             /\ \E img \in ModelImageInputs, mo \in ModelOutputs,
                   up \in UploadOutcomes :
                  out[p] = S3Printed(img, r, mo, up)

\* A run whose upload failed: a result without s3_key, exit status 0.
C29_Witness ==
  \E p \in Procs :
    /\ Done(p) /\ script[p] = "s3" /\ HasResult(p) /\ rc[p] = 0
    /\ "s3_key" \notin DOMAIN Result(p)
    /\ Result(p).method = "hybrid_s3_model"

\* C30 (as claimed): in every result of every script, sensor_readings and
\* parameters hold all five parameters, and the status of each parameter is
\* Normal exactly when the value reported for it in parameters is in its
\* normal range.
C30_StatusMatchesReportedValue ==
  \A p \in Procs :
    (Done(p) /\ HasResult(p))
      => \A k \in Params :
           /\ k \in DOMAIN Result(p).sensor_readings
           /\ k \in DOMAIN Result(p).parameters
           /\ (Result(p).parameters[k].status = "Normal")
                <=> InRange(k, Result(p).parameters[k].value)
====
